---- MODULE Spec2Model ----
(***************************************************************************)
(* A model of piker's chart graphics.                                      *)
(* OHLC bars (src/piker/ui/_graphics.py): BarItems keeps a pre-allocated   *)
(* table of per-bar line objects (self.lines), a write cursor (self.index) *)
(* and two pictures (history, last) that are compiled from slices of the   *)
(* table.  The crosshair and the level lines                               *)
(* (src/piker/ui/_graphics/__init__.py) are introduced further down.       *)
(*                                                                         *)
(* Conventions                                                             *)
(*  - table slots are numbered from 0 as in the source; slot k is          *)
(*    lines[k + 1] of the TLA+ sequence.                                   *)
(*  - x coordinates are in hundredths of a bar (index 2 is x = 200), so    *)
(*    that the arm half-width w = 0.43 is the integer 43.                  *)
(*  - a QLineF is the tuple <<x1, y1, x2, y2>>; Python's None is <<>>;     *)
(*    the integer 0 that np.zeros puts in an object array is <<0>>.        *)
(*  - QPainter is the external rasterizer: drawLines records the sequence  *)
(*    of objects it is handed, whatever they are.                          *)
(*  - the 'volume' field of a row is read by the source and never used;    *)
(*    rows carry index, open, high, low, close.                            *)
(***************************************************************************)
EXTENDS Integers, Sequences, FiniteSets, TLC

\* Number of rows of the lines table (50e3 in the source, scaled down).
Capacity == 2

\* Most rows an input array holds beyond the current write cursor.
MaxBatch == 2

\* BarItems.w = 0.43, in hundredths of a bar.
W == 43

None == <<>>

Zero == <<0>>

Min(a, b) == IF a < b THEN a ELSE b

Max(a, b) == IF a > b THEN a ELSE b

X(index) == 100 * index

QLineF(x1, y1, x2, y2) == <<x1, y1, x2, y2>>

(***************************************************************************)
(* Python sequence indexing and slicing.                                   *)
(***************************************************************************)
\* seq[a:b] bounds, as half-open 0-based [lo, hi).
SliceLo(n, a) == IF a < 0 THEN Max(a + n, 0) ELSE Min(a, n)

SliceHi(n, a, b) == Max(SliceLo(n, b), SliceLo(n, a))

PySlice(seq, a, b) ==
    SubSeq(seq, SliceLo(Len(seq), a) + 1, SliceHi(Len(seq), a, b))

\* seq[i] for a possibly negative i: the 0-based position read.
PyIndex(n, i) == IF i < 0 THEN i + n ELSE i

\* `value or default` for an optional integer argument (<<>> is None).
PyOr(arg, default) == IF arg = <<>> \/ arg = <<0>> THEN default ELSE arg[1]

(***************************************************************************)
(* _mk_lines_array and bars_from_ohlc.                                     *)
(***************************************************************************)
mk_lines_array(size) == [k \in 1..size |-> <<Zero, Zero, Zero>>]

\* BarLines with the low = high test left out: a zero-length body is made.
BarLinesZeroBody(q, w) ==
    <<QLineF(X(q.index), q.low, X(q.index), q.high),
      QLineF(X(q.index) - w, q.open, X(q.index), q.open),
      QLineF(X(q.index), q.close, X(q.index) + w, q.close)>>

\* The loop body of bars_from_ohlc: the three line objects of one row.
BarLines(q, w) ==
    LET hl == IF q.low # q.high
              THEN QLineF(X(q.index), q.low, X(q.index), q.high)
              ELSE None
        o == QLineF(X(q.index) - w, q.open, X(q.index), q.open)
        c == QLineF(X(q.index), q.close, X(q.index) + w, q.close)
    IN <<hl, o, c>>

bars_from_ohlc(data, w, start) ==
    [k \in 1..Len(data) |->
        IF k - 1 >= start THEN BarLines(data[k], w) ELSE <<Zero, Zero, Zero>>]

(***************************************************************************)
(* numpy: table[a:b] = src.  The rows broadcast when the counts agree or   *)
(* when src has exactly one row (also into an empty slice); otherwise      *)
(* numpy raises ValueError and writes nothing.                             *)
(***************************************************************************)
SetRows(table, a, b, src) ==
    LET lo == SliceLo(Len(table), a)
        hi == SliceHi(Len(table), a, b)
        m == hi - lo
        n == Len(src)
    IN IF n = m
       THEN [ok |-> TRUE,
             lines |-> [k \in 1..Len(table) |->
                          IF lo < k /\ k <= hi THEN src[k - lo] ELSE table[k]]]
       ELSE IF n = 1
       THEN [ok |-> TRUE,
             lines |-> [k \in 1..Len(table) |->
                          IF lo < k /\ k <= hi THEN src[1] ELSE table[k]]]
       ELSE [ok |-> FALSE, lines |-> table]

\* np.ravel of a sequence of rows of three objects.
Ravel(rows) ==
    [j \in 1..(3 * Len(rows)) |-> rows[((j - 1) \div 3) + 1][((j - 1) % 3) + 1]]

NotNone(e) == e # None

(***************************************************************************)
(* The object state: self.lines, self.index, self.history, self.last.      *)
(* painted lists the pictures a QPainter was opened on during the call.    *)
(***************************************************************************)
EmptyPicture == [istart |-> 0, iend |-> 0, drawn |-> <<>>]

NewBarItems ==
    [lines |-> mk_lines_array(Capacity), index |-> 0,
     history |-> EmptyPicture, last |-> EmptyPicture, painted |-> {}]

\* flat[np.where(flat != None)]: the arguments handed to drawLines.  The
\* integer zeros of a slot that was never written are not None: they stay.
to_draw(self, istart, iend) ==
    SelectSeq(Ravel(PySlice(self.lines, istart, iend)), NotNone)

\* QPainter.drawLines takes one or more QLineF: a call with no argument, or
\* with an argument that is an int, raises TypeError.
Drawable(args) == args # <<>> /\ \A j \in 1..Len(args) : Len(args[j]) = 4

\* The picture after QPainter(pic) and drawLines on self.lines[istart:iend].
\* QPainter(pic) empties the picture; a drawLines that raises records
\* nothing in it.
Picture(self, istart, iend) ==
    LET n == Len(self.lines)
        args == to_draw(self, istart, iend)
    IN IF Drawable(args)
       THEN [istart |-> SliceLo(n, istart), iend |-> SliceHi(n, istart, iend),
             drawn |-> args]
       ELSE EmptyPicture

\* The result of draw_lines: the object and the exception drawLines raised.
Painted(self, args) ==
    [self |-> self, exc |-> IF Drawable(args) THEN "none" ELSE "TypeError"]

draw_lines(self, istart, iend, just_history) ==
    IF just_history
    THEN LET end == PyOr(iend, self.index - 1)
         IN Painted([self EXCEPT
                       !.history = Picture(self, istart, end),
                       !.painted = @ \cup {"history"}],
                    to_draw(self, istart, end))
    ELSE LET end == PyOr(iend, self.index)
         IN Painted([self EXCEPT
                       !.last = Picture(self, self.index - 1, end),
                       !.painted = @ \cup {"last"}],
                    to_draw(self, self.index - 1, end))

Return(self, added) == [self |-> self, exc |-> "none", added |-> added]

Raise(self, exc) == [self |-> self, exc |-> exc, added |-> 0]

draw_from_data(self, data, start) ==
    LET lines == bars_from_ohlc(data, W, start)
        index == Len(lines)
        put == SetRows(self.lines, 0, index, lines)
        s1 == [self EXCEPT !.lines = put.lines, !.index = index]
        d1 == draw_lines(s1, 0, <<s1.index - 1>>, TRUE)
        d2 == draw_lines(d1.self, 0, <<d1.self.index>>, FALSE)
    IN IF ~put.ok THEN Raise(self, "ValueError")
       ELSE IF d1.exc # "none" THEN Raise(d1.self, d1.exc)
       ELSE IF d2.exc # "none" THEN Raise(d2.self, d2.exc)
       ELSE Return(d2.self, index)

(***************************************************************************)
(* update_from_array, second half: the update of the current bar from the  *)
(* last row of the array.  index is the local variable of the caller: the  *)
(* value of self.index when update_from_array was entered.                 *)
(***************************************************************************)
\* UpdateBody with the two arms of the inner test swapped for an existing
\* body: a body that is there is dropped instead of being moved.
UpdateBodySwapped(self, index, i, low, high, body) ==
    IF low # high
    THEN IF body = None
         THEN [ok |-> TRUE,
               self |-> [self EXCEPT !.lines[i + 1][1] =
                           QLineF(X(i), low, X(i), high)]]
         ELSE [ok |-> TRUE, self |-> [self EXCEPT !.lines[i + 1][1] = None]]
    ELSE [ok |-> TRUE, self |-> [self EXCEPT !.lines[i + 1][1] = None]]

\* UpdateBody writing a moved body into the slot before the current bar's:
\* the update reaches into the history.
UpdateBodyPrevious(self, index, i, low, high, body) ==
    LET slot == PyIndex(Len(self.lines), index - 1) + 1
    IN IF low # high
       THEN IF body = None
            THEN [ok |-> slot \in 1..Len(self.lines),
                  self |-> IF slot \in 1..Len(self.lines)
                           THEN [self EXCEPT !.lines[slot][1] =
                                    QLineF(X(i), low, X(i), high)]
                           ELSE self]
            ELSE [ok |-> TRUE,
                  self |-> [self EXCEPT !.lines[Max(i, 1)][1] =
                              QLineF(X(i), low, X(i), high)]]
       ELSE IF body # None
            THEN [ok |-> slot \in 1..Len(self.lines),
                  self |-> IF slot \in 1..Len(self.lines)
                           THEN [self EXCEPT !.lines[slot][1] = None]
                           ELSE self]
            ELSE [ok |-> TRUE, self |-> self]

UpdateBody(self, index, i, low, high, body) ==
    LET slot == PyIndex(Len(self.lines), index - 1) + 1
    IN IF low # high
       THEN IF body = None
            THEN [ok |-> slot \in 1..Len(self.lines),
                  self |-> IF slot \in 1..Len(self.lines)
                           THEN [self EXCEPT !.lines[slot][1] =
                                    QLineF(X(i), low, X(i), high)]
                           ELSE self]
            ELSE [ok |-> TRUE,
                  self |-> [self EXCEPT !.lines[i + 1][1] =
                              QLineF(X(i), low, X(i), high)]]
       ELSE IF body # None
            THEN [ok |-> slot \in 1..Len(self.lines),
                  self |-> IF slot \in 1..Len(self.lines)
                           THEN [self EXCEPT !.lines[slot][1] = None]
                           ELSE self]
            ELSE [ok |-> TRUE, self |-> self]

current_bar_update(self, array, index, added) ==
    IF Len(array) = 0 THEN Raise(self, "IndexError")
    ELSE
    LET q == array[Len(array)]
        i == q.index
    IN IF i # self.index - 1 THEN Raise(self, "AssertionError")
       ELSE IF PyIndex(Len(self.lines), i) \notin 0..(Len(self.lines) - 1)
       THEN Raise(self, "IndexError")
       ELSE
       LET row == self.lines[i + 1]
           body == row[1]
           larm == row[2]
           rarm == row[3]
       IN IF Len(rarm) # 4 THEN Raise(self, "AttributeError")
          ELSE
          LET s1 == [self EXCEPT !.lines[i + 1][3] =
                        QLineF(rarm[1], q.close, rarm[3], q.close)]
          IN IF Len(larm) # 4 THEN Raise(s1, "AttributeError")
             ELSE
             LET s2 == [s1 EXCEPT !.lines[i + 1][2] =
                           QLineF(larm[1], q.open, larm[3], q.open)]
                 upd == UpdateBody(s2, index, i, q.low, q.high, body)
                 d == draw_lines(upd.self, 0, <<>>, FALSE)
             IN IF q.low # q.high /\ body = Zero
                THEN Raise(s2, "AttributeError")
                ELSE IF ~upd.ok THEN Raise(s2, "IndexError")
                ELSE IF d.exc # "none" THEN Raise(d.self, d.exc)
                ELSE Return(d.self, added)

\* update_from_array with the history picture recompiled on every call.
update_from_array_redraw(self, array, just_history) ==
    LET index == self.index
        extra == Len(array) - index
        new == PySlice(array, index, index + extra)
        lines == bars_from_ohlc(new, W, 0)
        put == SetRows(self.lines, index, index + Len(lines), lines)
        d1 == draw_lines([self EXCEPT !.lines = put.lines,
                                      !.index = index + Len(lines)],
                         0, <<>>, TRUE)
        d0 == draw_lines(self, 0, <<>>, TRUE)
    IN IF extra > 0
       THEN IF ~put.ok THEN Raise(self, "ValueError")
            ELSE IF d1.exc # "none" THEN Raise(d1.self, d1.exc)
            ELSE IF just_history THEN Return(d1.self, Len(lines))
            ELSE current_bar_update(d1.self, array, index, Len(lines))
       ELSE IF d0.exc # "none" THEN Raise(d0.self, d0.exc)
       ELSE current_bar_update(d0.self, array, index, 0)

update_from_array(self, array, just_history) ==
    LET index == self.index
        length == Len(array)
        extra == length - index
        new == PySlice(array, index, index + extra)
        lines == bars_from_ohlc(new, W, 0)
        bars_added == Len(lines)
        put == SetRows(self.lines, index, index + bars_added, lines)
        d1 == draw_lines([self EXCEPT !.lines = put.lines,
                                      !.index = index + bars_added],
                         0, <<>>, TRUE)
    IN IF extra > 0
       THEN IF ~put.ok THEN Raise(self, "ValueError")
            ELSE IF d1.exc # "none" THEN Raise(d1.self, d1.exc)
            ELSE IF just_history THEN Return(d1.self, bars_added)
            ELSE current_bar_update(d1.self, array, index, bars_added)
       ELSE current_bar_update(self, array, index, 0)

(***************************************************************************)
(* The inputs.  A row is a record of the OHLC array; Shapes are the price  *)
(* patterns handed in: low < high, low = high and low > high.  A row at    *)
(* array position p carries the index field p or, misnumbered, p + 1.      *)
(* update_from_array reads only the rows from self.index on and the last   *)
(* row, so the rows before them are a fixed filler.                        *)
(***************************************************************************)
Shapes ==
    { [open |-> 1, high |-> 2, low |-> 1, close |-> 2],
      [open |-> 2, high |-> 2, low |-> 2, close |-> 2],
      [open |-> 2, high |-> 1, low |-> 2, close |-> 1] }

Row(i, s) ==
    [index |-> i, open |-> s.open, high |-> s.high,
     low |-> s.low, close |-> s.close]

RowsAt(p) == { Row(i, s) : i \in {p, p + 1}, s \in Shapes }

Filler(p) == Row(p, [open |-> 1, high |-> 2, low |-> 1, close |-> 2])

\* The start offsets handed to draw_from_data.
Starts == {0, 1}

RECURSIVE Arrays(_, _)
\* The arrays of n rows whose rows at positions >= from are free.
Arrays(n, from) ==
    IF n = 0 THEN { <<>> }
    ELSE { Append(a, r) : a \in Arrays(n - 1, from),
                          r \in (IF n - 1 >= from THEN RowsAt(n - 1)
                                                  ELSE { Filler(n - 1) }) }

\* The arrays of n rows handed to update_from_array when self.index = from;
\* the feed hands in its whole array, here at most one row shorter than
\* self.index, at most MaxBatch rows longer, and at most one row longer
\* than the table.
UpdateArrays(n, from) ==
    IF n = 0 THEN { <<>> }
    ELSE { Append(a, r) : a \in Arrays(n - 1, from), r \in RowsAt(n - 1) }

(***************************************************************************)
(* The crosshair (class CrossHair of src/piker/ui/_graphics/__init__.py;   *)
(* the class of the same name in src/piker/ui/_graphics.py has the same    *)
(* handlers).  A CrossHair object is the record of its fields graphics,    *)
(* plots, active_plot, digits, _lastx and xaxis_label, with the field      *)
(* effects for the calls a handler makes on the graphics items and on the  *)
(* charts.  graphics is the dict from a registered chart to its items;     *)
(* charts are registered once, so the dict is walked in the order of       *)
(* plots.  An attribute that is None or not yet set is <<>> and a set one  *)
(* is <<value>>.  A pointer position is given by the view coordinates      *)
(* (x, y) that the active chart's mapToView gives it, x in hundredths of a *)
(* bar.  Pens, cache modes, parent items and the signal proxies of the     *)
(* items are left out.                                                     *)
(***************************************************************************)
\* round() of a float given in hundredths: to the nearest integer, a tie
\* going to the even one.
PyRound(x) ==
    LET f == x \div 100
        r == x % 100
    IN IF r < 50 THEN f
       ELSE IF r > 50 THEN f + 1
       ELSE IF f % 2 = 0 THEN f ELSE f + 1

\* One call made on an item of a chart, or on the chart itself.
Effect(op, plot, arg) == [op |-> op, plot |-> plot, arg |-> arg]

\* plot.addLine(x=0) and plot.addLine(y=0): a shown line at position 0.
InfiniteLine == [pos |-> 0, visible |-> TRUE]

YAxisLabel(digits) == [digits |-> digits, value |-> <<>>, visible |-> TRUE]

XAxisLabel(plot) ==
    [value |-> <<>>, abs_pos |-> [plot |-> plot, x |-> 0, y |-> 0]]

hide(item) == [item EXCEPT !.visible = FALSE]

show(item) == [item EXCEPT !.visible = TRUE]

NewCrossHair ==
    [graphics |-> <<>>, plots |-> <<>>, active_plot |-> None, digits |-> 0,
     lastx |-> None, xaxis_label |-> <<>>, effects |-> {}]

add_plot(self, plot, digits) ==
    LET vl == InfiniteLine
        hl == hide(InfiniteLine)
        yl == hide(YAxisLabel(PyOr(<<digits>>, self.digits)))
        opts == [vl |-> vl, hl |-> hl, yl |-> yl, cursors |-> <<>>]
        plots == Append(self.plots, plot)
    IN [self EXCEPT
          !.graphics = [q \in DOMAIN self.graphics \cup {plot} |->
                           IF q = plot THEN opts ELSE self.graphics[q]],
          !.plots = plots,
          !.xaxis_label = <<XAxisLabel(plots[1])>>,
          !.effects = @ \cup {Effect("hl.hide", plot, 0),
                              Effect("yl.hide", plot, 0)}]

\* LineDot(curve, index=plot._ohlc[-1]['index']): last_index is that index.
add_curve_cursor(self, plot, last_index) ==
    [self EXCEPT !.graphics[plot].cursors = Append(@, [index |-> last_index])]

\* mouseAction that shows the horizontal line alone on Enter.
mouseActionNoLabel(self, action, plot) ==
    IF action = "Enter"
    THEN [self EXCEPT !.active_plot = <<plot>>,
                      !.graphics[plot].hl = show(@),
                      !.effects = @ \cup {Effect("hl.show", plot, 0)}]
    ELSE [self EXCEPT !.active_plot = None,
                      !.graphics[plot].hl = hide(@),
                      !.graphics[plot].yl = hide(@),
                      !.effects = @ \cup {Effect("hl.hide", plot, 0),
                                          Effect("yl.hide", plot, 0)}]

mouseAction(self, action, plot) ==
    IF action = "Enter"
    THEN [self EXCEPT !.active_plot = <<plot>>,
                      !.graphics[plot].hl = show(@),
                      !.graphics[plot].yl = show(@),
                      !.effects = @ \cup {Effect("hl.show", plot, 0),
                                          Effect("yl.show", plot, 0)}]
    ELSE [self EXCEPT !.active_plot = None,
                      !.graphics[plot].hl = hide(@),
                      !.graphics[plot].yl = hide(@),
                      !.effects = @ \cup {Effect("hl.hide", plot, 0),
                                          Effect("yl.hide", plot, 0)}]

\* The refresh done for the active chart alone.
refreshActive(self, x, y, ix) ==
    LET charts == {self.active_plot[1]}
        plot == self.plots[Len(self.plots)]
        moved(opts) ==
            [opts EXCEPT
               !.vl.pos = ix,
               !.cursors = [k \in DOMAIN opts.cursors |->
                               [opts.cursors[k] EXCEPT !.index = ix]]]
    IN [self EXCEPT
          !.graphics = [q \in DOMAIN self.graphics |->
                           IF q \in charts THEN moved(self.graphics[q])
                           ELSE self.graphics[q]],
          !.xaxis_label =
              <<[value |-> <<x>>,
                 abs_pos |-> [plot |-> plot, x |-> ix, y |-> y]]>>,
          !.effects = @ \cup
              {Effect("vl.setX", q, ix) : q \in charts} \cup
              {Effect("update_contents_labels", q, ix) : q \in charts} \cup
              {Effect("cursor.setIndex", q, ix) :
                  q \in {c \in charts : self.graphics[c].cursors # <<>>}} \cup
              {Effect("xaxis_label.update_label", plot, x)}]

\* The refresh with the bottom-axis label given the snapped index.
refreshSnapped(self, x, y, ix) ==
    LET charts == DOMAIN self.graphics
        plot == self.plots[Len(self.plots)]
        moved(opts) ==
            [opts EXCEPT
               !.vl.pos = ix,
               !.cursors = [k \in DOMAIN opts.cursors |->
                               [opts.cursors[k] EXCEPT !.index = ix]]]
    IN [self EXCEPT
          !.graphics = [q \in charts |-> moved(self.graphics[q])],
          !.xaxis_label =
              <<[value |-> <<100 * ix>>,
                 abs_pos |-> [plot |-> plot, x |-> ix, y |-> y]]>>,
          !.effects = @ \cup
              {Effect("vl.setX", q, ix) : q \in charts} \cup
              {Effect("update_contents_labels", q, ix) : q \in charts} \cup
              {Effect("cursor.setIndex", q, ix) :
                  q \in {c \in charts : self.graphics[c].cursors # <<>>}} \cup
              {Effect("xaxis_label.update_label", plot, 100 * ix)}]

\* The synchronized refresh of mouseMoved: the loop over self.graphics and
\* the update of the bottom-axis label.  After the loop the name plot is
\* bound to the chart registered last.
refresh(self, x, y, ix) ==
    LET charts == DOMAIN self.graphics
        plot == self.plots[Len(self.plots)]
        moved(opts) ==
            [opts EXCEPT
               !.vl.pos = ix,
               !.cursors = [k \in DOMAIN opts.cursors |->
                               [opts.cursors[k] EXCEPT !.index = ix]]]
    IN [self EXCEPT
          !.graphics = [q \in charts |-> moved(self.graphics[q])],
          !.xaxis_label =
              <<[value |-> <<x>>,
                 abs_pos |-> [plot |-> plot, x |-> ix, y |-> y]]>>,
          !.effects = @ \cup
              {Effect("vl.setX", q, ix) : q \in charts} \cup
              {Effect("update_contents_labels", q, ix) : q \in charts} \cup
              {Effect("cursor.setIndex", q, ix) :
                  q \in {c \in charts : self.graphics[c].cursors # <<>>}} \cup
              {Effect("xaxis_label.update_label", plot, x)}]

\* mouseMoved without the return for a pointer that is on no chart: the
\* chart registered first is taken for the active one.
mouseMovedAnywhere(self, x, y) ==
    IF self.plots = <<>> THEN self
    ELSE
    LET plot == IF self.active_plot = None THEN self.plots[1]
                ELSE self.active_plot[1]
        s1 == [self EXCEPT
                 !.graphics[plot].hl.pos = y,
                 !.graphics[plot].yl.value = <<y>>,
                 !.effects = @ \cup {Effect("hl.setY", plot, y),
                                     Effect("yl.update_label", plot, y)}]
        ix == PyRound(x)
        s2 == IF <<ix>> # self.lastx THEN refresh(s1, x, y, ix) ELSE s1
    IN [s2 EXCEPT !.lastx = <<ix>>]

\* mouseMoved that refreshes on every move, snapped index changed or not.
mouseMovedAlways(self, x, y) ==
    IF self.active_plot = None THEN self
    ELSE
    LET plot == self.active_plot[1]
        s1 == [self EXCEPT
                 !.graphics[plot].hl.pos = y,
                 !.graphics[plot].yl.value = <<y>>,
                 !.effects = @ \cup {Effect("hl.setY", plot, y),
                                     Effect("yl.update_label", plot, y)}]
        ix == PyRound(x)
        s2 == refresh(s1, x, y, ix)
    IN [s2 EXCEPT !.lastx = <<ix>>]

\* (x, y) is self.active_plot.mapToView(pos) of the event's position.
mouseMoved(self, x, y) ==
    IF self.active_plot = None THEN self
    ELSE
    LET plot == self.active_plot[1]
        s1 == [self EXCEPT
                 !.graphics[plot].hl.pos = y,
                 !.graphics[plot].yl.value = <<y>>,
                 !.effects = @ \cup {Effect("hl.setY", plot, y),
                                     Effect("yl.update_label", plot, y)}]
        ix == PyRound(x)
        s2 == IF <<ix>> # self.lastx THEN refresh(s1, x, y, ix) ELSE s1
    IN [s2 EXCEPT !.lastx = <<ix>>]

\* boundingRect falling back on the chart registered last.
boundingRectLast(self) ==
    IF self.active_plot # None
    THEN [exc |-> "none", plot |-> self.active_plot]
    ELSE IF self.plots = <<>> THEN [exc |-> "IndexError", plot |-> <<>>]
    ELSE [exc |-> "none", plot |-> <<self.plots[Len(self.plots)]>>]

\* boundingRect: the chart whose bounding rectangle is returned, or the
\* exception raised.
boundingRect(self) ==
    IF self.active_plot # None
    THEN [exc |-> "none", plot |-> self.active_plot]
    ELSE IF self.plots = <<>> THEN [exc |-> "IndexError", plot |-> <<>>]
    ELSE [exc |-> "none", plot |-> <<self.plots[1]>>]

(***************************************************************************)
(* The level line and its label (LevelLabel, LevelLine and level_line of   *)
(* src/piker/ui/_graphics/__init__.py).  A level is a price in hundredths; *)
(* a text is the sequence of its characters; a position on the scene is    *)
(* in pixels.  A LevelLabel is the record of its fields: those of the      *)
(* class and, from its base class YSticky, digits, label_str, the font     *)
(* (its height and the width of a character), the measured rectangle rect  *)
(* (0 by 0 until measured) and the position pos.  A                        *)
(* LevelLine is the record of its label and of its value.  abs_y is the    *)
(* scene y that the chart's mapFromView gives the level.                   *)
(***************************************************************************)
DigitChar(d) == <<"0", "1", "2", "3", "4", "5", "6", "7", "8", "9">>[d + 1]

RECURSIVE Pow10(_)
Pow10(k) == IF k = 0 THEN 1 ELSE 10 * Pow10(k - 1)

RECURSIVE IntStr(_)
\* The decimal digits of a natural number.
IntStr(n) ==
    IF n < 10 THEN <<DigitChar(n)>>
    ELSE Append(IntStr(n \div 10), DigitChar(n % 10))

RECURSIVE FracStr(_, _)
\* The last k decimal digits of n, zeros included.
FracStr(n, k) ==
    IF k = 0 THEN <<>>
    ELSE Append(FracStr(n \div 10, k - 1), DigitChar(n % 10))

\* a / b to the nearest integer, a tie going to the even one.
RoundHalfEven(a, b) ==
    LET q == a \div b
        r == a % b
    IN IF 2 * r < b THEN q
       ELSE IF 2 * r > b THEN q + 1
       ELSE IF q % 2 = 0 THEN q ELSE q + 1

\* '{level:.{digits}f}'.format(...) of a level >= 0 given in hundredths
\* (the levels drawn are multiples of 0.25, which a float holds exactly, so
\* that the rounding is the decimal one).
FormatFixed(level, digits) ==
    LET n == IF digits >= 2 THEN level * Pow10(digits - 2)
             ELSE RoundHalfEven(level, Pow10(2 - digits))
    IN IntStr(n \div Pow10(digits)) \o
       (IF digits = 0 THEN <<>>
        ELSE <<".">> \o FracStr(n % Pow10(digits), digits))

\* str.replace(old, new) for one-character old and new.
Replace(str, old, new) ==
    [k \in 1..Len(str) |-> IF str[k] = old THEN new ELSE str[k]]

VShift(orient_v) ==
    CASE orient_v = "top" -> 2 [] orient_v = "bottom" -> 0
      [] orient_v = "middle" -> 1

HShift(orient_h) == CASE orient_h = "left" -> -1 [] orient_h = "right" -> 0

\* LevelLabel._w_margin and LevelLabel._h_margin.
w_margin == 4

h_margin == 3

\* LevelLabel.__init__; _v_shift is kept in halves (1., 0, 1/2 are 2, 0, 1).
LevelLabel(digits, font, orient_v, orient_h) ==
    [cls |-> "LevelLabel",
     digits |-> digits, level |-> 0, label_str |-> <<>>, font |-> font,
     rect |-> [h |-> 0, w |-> 0], pos |-> [x |-> 0, y |-> 0],
     visible |-> TRUE, orient_v |-> orient_v, orient_h |-> orient_h,
     v_shift |-> VShift(orient_v), h_shift |-> HShift(orient_h)]

\* set_label_str with one digit fewer than configured.
set_label_strShort(self, level) ==
    [self EXCEPT !.label_str =
        Replace(FormatFixed(level, Max(self.digits - 1, 0)), ",", " ")]

set_label_str(self, level) ==
    [self EXCEPT !.label_str =
        Replace(FormatFixed(level, self.digits), ",", " ")]

RECURSIVE GroupedStr(_)
\* The decimal digits of a natural number, a comma between groups of three.
GroupedStr(n) ==
    IF n < 1000 THEN IntStr(n)
    ELSE GroupedStr(n \div 1000) \o <<",">> \o FracStr(n % 1000, 3)

\* '{level:,.{digits}f}'.format(...) of a level >= 0 given in hundredths.
FormatGrouped(level, digits) ==
    LET n == IF digits >= 2 THEN level * Pow10(digits - 2)
             ELSE RoundHalfEven(level, Pow10(2 - digits))
    IN GroupedStr(n \div Pow10(digits)) \o
       (IF digits = 0 THEN <<>>
        ELSE <<".">> \o FracStr(n % Pow10(digits), digits))

\* L1Label: a LevelLabel with the size of the level's order queue (in
\* hundredths, 0 when unset) and the number of digits it is shown with.
L1Label(digits, font, orient_v) ==
    [cls |-> "L1Label", size |-> 0, size_digits |-> 3] @@
    [LevelLabel(digits, font, orient_v, "left") EXCEPT !.cls = "L1Label"]

\* L1Label.set_label_str: `self.size or '?'` is the string '?' for a size
\* of 0, and the format code 'f' of '{size:.{size_digits}f}' raises
\* ValueError for a string.
L1Label_set_label_str(self, level) ==
    IF self.size = 0 THEN [exc |-> "ValueError", self |-> self]
    ELSE [exc |-> "none",
          self |-> [self EXCEPT !.label_str =
                      Replace(FormatFixed(self.size, self.size_digits) \o
                              <<" ", "x", " ">> \o
                              FormatGrouped(level, self.digits),
                              ",", " ")]]

\* self.set_label_str(level), by the class of the label.
SetLabelStr(self, level) ==
    IF self.cls = "L1Label" THEN L1Label_set_label_str(self, level)
    ELSE [exc |-> "none", self |-> set_label_str(self, level)]

\* self.boundingRect() of a label: its measured rectangle.
LabelRect(self) == self.rect

\* update_label that leaves out the vertical shift.
update_labelNoShift(self, abs_y, level, offset) ==
    LET r == SetLabelStr(self, level)
        s1 == r.self
        br == LabelRect(s1)
        w == br.w
    IN IF r.exc # "none" THEN r
       ELSE [exc |-> "none",
             self |-> [s1 EXCEPT
                         !.pos = [x |-> self.h_shift * w - offset,
                                  y |-> abs_y - offset],
                         !.level = level]]

\* update_label(abs_pos, level, offset); the product _v_shift * h is exact
\* for the even heights drawn.
update_label(self, abs_y, level, offset) ==
    LET r == SetLabelStr(self, level)
        s1 == r.self
        br == LabelRect(s1)
        h == br.h
        w == br.w
    IN IF r.exc # "none" THEN r
       ELSE [exc |-> "none",
             self |-> [s1 EXCEPT
                         !.pos = [x |-> self.h_shift * w - offset,
                                  y |-> abs_y - ((self.v_shift * h) \div 2)
                                           - offset],
                         !.level = level]]

\* YSticky.update_from_data(index, value): the label is updated to the
\* value at the scene position of (index, value).
update_from_data(self, i, value, abs_y) == update_label(self, abs_y, value, 1)

\* size_hint: no fixed height, no fixed width.
size_hint(self) == [h |-> None, w |-> None]

\* _size_br_from_str(value): the rectangle is measured from the string in
\* the label's font, self.font.h high and self.font.w wide a character,
\* unless size_hint fixes a size, and the margins are added.
size_br_from_str(self, str) ==
    LET txt_w == self.font.w * Len(str)
        txt_h == self.font.h
        hint == size_hint(self)
    IN [self EXCEPT !.rect = [h |-> PyOr(hint.h, txt_h) + h_margin,
                              w |-> PyOr(hint.w, txt_w) + w_margin]]

\* LevelLine.set_level, the slot of sigPositionChanged.  The label of a
\* line is a LevelLabel, whose update raises nothing.
set_level(self, abs_y) ==
    [self EXCEPT
       !.label = update_from_data(self.label, 0, self.value, abs_y).self]

\* LevelLine(label, ...): the line's point self.p starts at [0, 0]; value()
\* is its second coordinate.
LevelLine(lbl) == [label |-> lbl, x |-> 0, value |-> 0]

\* setPos to the point (x, v): the point is stored and sigPositionChanged is
\* emitted if either coordinate differs from the line's point.
setPos(self, x, v, abs_y) ==
    IF x = self.x /\ v = self.value THEN self
    ELSE set_level([self EXCEPT !.x = x, !.value = v], abs_y)

\* setValue(v) of a horizontal line: setPos to the point (0, v).
setValue(self, v, abs_y) == setPos(self, 0, v, abs_y)

level_line(level, digits, font, orient_v, orient_h, abs_y, show_label) ==
    LET l0 == LevelLabel(digits, font, orient_v, orient_h)
        l1 == update_from_data(l0, 0, level, abs_y).self
        l2 == size_br_from_str(l1, l1.label_str)
        line0 == LevelLine(l2)
        line1 == setValue(line0, level, abs_y)
        line2 == setValue(line1, level, abs_y)
    IN IF ~show_label THEN [line2 EXCEPT !.label = hide(@)] ELSE line2

\* L1Labels.max_value, '100.0 x 100 000.00'.
max_value ==
    <<"1", "0", "0", ".", "0", " ", "x", " ",
      "1", "0", "0", " ", "0", "0", "0", ".", "0", "0">>

\* L1Labels.__init__: the bid label below and the ask label above the
\* level, both measured against max_value.
L1Labels(digits, size_digits, font) ==
    LET bid == [L1Label(digits, font, "bottom") EXCEPT
                   !.size_digits = size_digits]
        ask == [L1Label(digits, font, "top") EXCEPT
                   !.size_digits = size_digits]
    IN [bid_label |-> size_br_from_str(bid, max_value),
        ask_label |-> size_br_from_str(ask, max_value)]

(***************************************************************************)
(* resproc (src/piker/brokers/_util.py).  A response is its status code    *)
(* and the text of its body.  The texts used are those of JsonDocs, which  *)
(* gives for each what json decoding makes of it.                          *)
(***************************************************************************)
JsonDocs ==
    [text \in {"null", "true", "7", "[]", "{}", "", "<html>", "{"} |->
       CASE text = "null" -> [exc |-> "none", value |-> [type |-> "NoneType"]]
         [] text = "true" -> [exc |-> "none", value |-> [type |-> "bool"]]
         [] text = "7" -> [exc |-> "none", value |-> [type |-> "int"]]
         [] text = "[]" -> [exc |-> "none", value |-> [type |-> "list"]]
         [] text = "{}" -> [exc |-> "none", value |-> [type |-> "dict"]]
         [] OTHER -> [exc |-> "JSONDecodeError"]]

\* resp.json()
json(resp) == JsonDocs[resp.text]

\* resproc(resp, log, return_json).  The name json is assigned in the
\* function and so is local to it: when resp.json() raises, the name is
\* still unbound where the except clause evaluates
\* json.decoder.JSONDecodeError, which raises UnboundLocalError.
resproc(resp, return_json) ==
    IF ~(resp.status_code = 200)
    THEN [exc |-> "BrokerError", arg |-> resp.text]
    ELSE LET decoded == json(resp)
         IN IF decoded.exc # "none"
            THEN [exc |-> "UnboundLocalError", arg |-> "json"]
            ELSE [exc |-> "none",
                  value |-> IF return_json THEN <<"json", decoded.value>>
                            ELSE <<"resp", resp>>]

(***************************************************************************)
(* The cached broker clients (get_cached_client of                         *)
(* src/piker/brokers/api.py), an async context manager run by the tasks of *)
(* one trio thread: a task runs without interruption from one checkpoint   *)
(* to the next.  The checkpoints are the acquiring of the lock (also when  *)
(* the lock is free), the opening of a client, the consumer's body at the  *)
(* yield and the closing of the exit stack.  trio's Lock is fair: release  *)
(* hands the lock to the task that has waited longest.                     *)
(* A client object is a record of its broker name, its _consumers count    *)
(* and the state of its _exit_stack: whether it has been closed, and how   *)
(* often aclose was called (0, 1 or 2 for more).  Clients are numbered in  *)
(* the order of creation.  The name ss is not defined or imported in the   *)
(* module (ss is None here): every call raises NameError at its first      *)
(* statement, so the steps after it, translated below from the rest of the *)
(* function, are reached by no call.                                       *)
(* A task is the record of where it is (pc), of the arguments and locals   *)
(* of its call (brokername, client), of the first error raised in its call *)
(* by the creation of a client or by the consumer's body (error) and of    *)
(* the exception its `async with` statement has raised (exc).  A body that *)
(* raises has its exception thrown into the generator at the yield.        *)
(***************************************************************************)
\* trio.Lock(): no owner, no waiting task.
Lock == [owner |-> None, waiters |-> <<>>]

\* lock.acquire() by task t, up to its checkpoint: the lock is taken if it
\* is free, and t is parked behind the waiting tasks if it is not.
acquire(lk, t) ==
    IF lk.owner = None THEN [lk EXCEPT !.owner = <<t>>]
    ELSE [lk EXCEPT !.waiters = Append(@, t)]

\* lock.release(): the lock goes to the first waiting task, if there is one.
release(lk) ==
    IF lk.waiters = <<>> THEN [lk EXCEPT !.owner = None]
    ELSE [owner |-> <<Head(lk.waiters)>>, waiters |-> Tail(lk.waiters)]

\* A task that is not inside get_cached_client.
Idle ==
    [pc |-> "idle", brokername |-> "", client |-> None, error |-> "none",
     exc |-> "none"]

\* brokermod.get_client() entered on a new exit stack.
Client(brokername) ==
    [brokername |-> brokername, consumers |-> 0, closed |-> FALSE,
     closes |-> 0]

\* await client._exit_stack.aclose()
aclose(c) == [c EXCEPT !.closed = TRUE, !.closes = Min(@ + 1, 2)]

\* The finally clause, for a task holding client number i: the count is
\* decremented and the client is torn down when it is not positive.
finally(cs, i) ==
    LET c == [cs[i] EXCEPT !.consumers = @ - 1]
    IN [cs EXCEPT ![i] = IF c.consumers <= 0 THEN aclose(c) ELSE c]

\* dict.setdefault(key, default)
setdefault(d, key, default) ==
    IF key \in DOMAIN d THEN d ELSE (key :> default) @@ d

\* The dict kept under ss['clients']: the lock of its '_lock' entry and the
\* clients cached by broker name.
ClientsOf(s) == s.ss[1].clients

\* Task t owns the lock.
Holds(s, t) ==
    /\ s.ss # None
    /\ "clients" \in DOMAIN s.ss[1]
    /\ ClientsOf(s).lock.owner = <<t>>

\* Task t enters the context manager for a broker name and runs to the
\* checkpoint of the first lock.acquire(): the lookup of ss raises
\* NameError when the name is not bound.
enter(s, t, brokername) ==
    IF s.ss = None
    THEN [s EXCEPT !.tasks[t] = [pc |-> "raised", brokername |-> brokername,
                                 client |-> None, error |-> "none",
                                 exc |-> "NameError"]]
    ELSE LET d == setdefault(s.ss[1], "clients",
                             [lock |-> Lock, entries |-> <<>>])
         IN [s EXCEPT
               !.ss = <<[d EXCEPT !.clients.lock = acquire(@, t)]>>,
               !.tasks[t] = [pc |-> "try", brokername |-> brokername,
                             client |-> None, error |-> "none",
                             exc |-> "none"]]

\* Task t, owning the lock in the try block, looks its broker name up.  A
\* cached client gains a consumer, the lock is released and the client is
\* yielded; a missing one raises KeyError, which releases the lock and
\* brings the task to lock.acquire() in the handler.
lookup(s, t) ==
    LET c == ClientsOf(s)
        b == s.tasks[t].brokername
    IN IF b \in DOMAIN c.entries
       THEN [s EXCEPT
               !.objs[c.entries[b]].consumers = @ + 1,
               !.ss[1].clients.lock = release(@),
               !.tasks[t].client = <<c.entries[b]>>,
               !.tasks[t].pc = "body"]
       ELSE [s EXCEPT
               !.ss[1].clients.lock = acquire(release(@), t),
               !.tasks[t].pc = "except"]

\* The finally clause of task t: with no client bound, client._consumers
\* raises AttributeError, which takes the place of the exception e on its
\* way out (e is "none" when there is none).  With a client, the count is
\* decremented and the client torn down when it is not positive; cp says
\* whether the client's teardown awaits, and if it does the task is at a
\* checkpoint inside aclose() (pc "leaving"), the exception still to come.
leave(s, t, e, cp) ==
    IF s.tasks[t].client = None
    THEN [s EXCEPT !.tasks[t].pc = "raised",
                   !.tasks[t].exc = "AttributeError"]
    ELSE LET i == s.tasks[t].client[1]
             torn == s.objs[i].consumers - 1 <= 0
         IN [s EXCEPT
               !.objs = finally(@, i),
               !.tasks[t].pc = IF torn /\ cp THEN "leaving"
                               ELSE IF e = "none" THEN "done" ELSE "raised",
               !.tasks[t].exc = e]

\* aclose() returns to task t, and its `async with` statement returns or
\* raises.
left(s, t) ==
    [s EXCEPT !.tasks[t].pc =
                 IF s.tasks[t].exc = "none" THEN "done" ELSE "raised"]

\* Task t, owning the lock in the KeyError handler, loads the broker module
\* and opens a client.  When that raises (outcome is the exception), the
\* lock is released and the finally clause runs.  When it succeeds
\* (outcome "ok"), the client is cached under the broker name and yielded,
\* the lock still held: to the consumer's body, or, when the handler was
\* entered by a KeyError of the body, to the context manager's __aexit__,
\* which closes the generator that did not stop and raises RuntimeError:
\* the GeneratorExit at the yield leaves the lock's block and runs the
\* finally clause for the new client.
create(s, t, outcome, cp) ==
    LET b == s.tasks[t].brokername
        i == Len(s.objs) + 1
        first == IF s.tasks[t].error = "none" THEN outcome
                 ELSE s.tasks[t].error
        made == [s EXCEPT
                   !.objs = Append(@, Client(b)),
                   !.ss[1].clients.entries = (b :> i) @@ @,
                   !.tasks[t].client = <<i>>]
    IN IF outcome # "ok"
       THEN leave([s EXCEPT !.ss[1].clients.lock = release(@),
                            !.tasks[t].error = first],
                  t, outcome, cp)
       ELSE IF s.tasks[t].error = "none"
       THEN [made EXCEPT !.tasks[t].pc = "body_locked"]
       ELSE leave([made EXCEPT !.ss[1].clients.lock = release(@)],
                  t, "RuntimeError", cp)

\* The consumer's body of task t finishes, normally (e is "none") or by
\* raising e.  The generator resumes at its yield: a KeyError at the yield
\* of the try block is caught by the handler, which goes to acquire the
\* lock; otherwise the generator leaves the lock's block if it is in one
\* and runs the finally clause.
exit(s, t, e, cp) ==
    IF s.tasks[t].pc = "body" /\ e = "KeyError"
    THEN [s EXCEPT !.ss[1].clients.lock = acquire(@, t),
                   !.tasks[t].error = e,
                   !.tasks[t].pc = "except"]
    ELSE leave([s EXCEPT
                  !.ss[1].clients.lock =
                      IF s.tasks[t].pc = "body_locked" THEN release(@) ELSE @,
                  !.tasks[t].error = e],
               t, e, cp)

(***************************************************************************)
(* The cursor dot of a curve (LineDot) and the contents label              *)
(* (ContentsLabel).  The data array is a sequence of rows with the fields  *)
(* index, open, high, low, close, volume and bar_wap, prices in            *)
(* hundredths; a curve's data are the x and y sequences of getData().  A   *)
(* dot is its curve, its 'index' property and its position; a label's text *)
(* is the record of what it shows, None before the first setText.          *)
(***************************************************************************)
\* The curve drawn over the close field of a data array.
PlotCurveItem(array) ==
    [x |-> [j \in 1..Len(array) |-> array[j].index],
     y |-> [j \in 1..Len(array) |-> array[j].close]]

\* LineDot.event: only a change of a dynamic property, on a dot whose curve
\* is alive, is handled; the result is the value returned and the dot.
LineDot_event(self, ev) ==
    IF ev # "QDynamicPropertyChangeEvent" \/ self.curve = None
    THEN [ret |-> FALSE, self |-> self]
    ELSE LET x == self.curve[1].x
             y == self.curve[1].y
             index == self.index
             i == index - x[1]
         IN IF i > 0 /\ i < Len(y)
            THEN [ret |-> TRUE,
                  self |-> [self EXCEPT !.pos = <<index, y[i + 1]>>]]
            ELSE [ret |-> FALSE, self |-> self]

\* CurvePoint.setIndex: the 'index' property is set, and the change of the
\* property is delivered to event().
setIndex(self, index) ==
    LineDot_event([self EXCEPT !.index = index],
                  "QDynamicPropertyChangeEvent").self

\* LineDot(curve, index=index): CurvePoint.__init__ sets the property to 0
\* and then to the index given, the dot at the origin.
LineDot(curve, index) ==
    setIndex(setIndex([curve |-> <<curve>>, index |-> 0, pos |-> <<0, 0>>],
                      0),
             index)

\* array[i] of a numpy array: the row read, negative positions counted
\* from the end, and IndexError outside.
GetItem(array, i) ==
    IF i >= Len(array) \/ i < 0 - Len(array) THEN [exc |-> "IndexError"]
    ELSE [exc |-> "none", row |-> array[PyIndex(Len(array), i) + 1]]

ContentsLabel == [text |-> None]

\* The text of a bar: its index and the six fields of a row.
OhlcText(index, row) ==
    [i |-> index, O |-> row.open, H |-> row.high, L |-> row.low,
     C |-> row.close, V |-> row.volume, wap |-> row.bar_wap]

update_from_ohlc(self, name, index, array) ==
    LET first == array[1].index
        got == GetItem(array, index - first)
    IN IF got.exc # "none" THEN [exc |-> got.exc, self |-> self]
       ELSE [exc |-> "none",
             self |-> [self EXCEPT !.text = <<OhlcText(index, got.row)>>]]

\* The text of a value: its name and the value with two decimals.
ValueText(name, data) == [name |-> name, data |-> FormatFixed(data, 2)]

update_from_value(self, name, index, array) ==
    LET first == array[1].index
    IN IF index < array[Len(array)].index /\ index > first
       THEN [exc |-> "none",
             self |-> [self EXCEPT !.text =
                 <<ValueText(name, array[index - first + 1][name])>>]]
       ELSE [exc |-> "none", self |-> self]

(***************************************************************************)
(* The state machine.  lines, index, history and last are the fields of    *)
(* the BarItems object; painted, call, bar, exc and accepted observe the   *)
(* last call: the pictures it recompiled, its arguments, the row its       *)
(* current-bar update was made from, the exception it raised ("none" when  *)
(* it returned) and the number of bars taken in by the calls that          *)
(* returned.                                                               *)
(* geomIn and geomOut are the input and the result of one application of   *)
(* bars_from_ohlc, used by SpecGeometry alone.                             *)
(* graphics, plots, active_plot, lastx (self._lastx) and xaxis_label are   *)
(* the fields of the CrossHair object; event and effects observe the last  *)
(* handler: its arguments and the calls it made on the graphics items.     *)
(* line is the LevelLine with its label, and dragged the level of the last *)
(* drag and the scene y it was mapped to.  l1_labels is the L1Labels       *)
(* object, <<>> when there is none, and l1_call observes the last update   *)
(* of one of its labels: the label, the size and the level handed in and   *)
(* the exception raised.                                                   *)
(***************************************************************************)
VARIABLES lines, index, history, last, painted, call, bar, exc, accepted,
          geomIn, geomOut,
          graphics, plots, active_plot, lastx, xaxis_label, event, effects,
          line, dragged, l1_labels, l1_call

(***************************************************************************)
(* The brokers' state: the response handed to resproc, its return_json     *)
(* argument and what the call returned or raised (None before the call);   *)
(* the module global ss of the cached clients (None while the name is not  *)
(* bound), the tasks inside get_cached_client and the clients created.     *)
(* The chart's state: its data array, its cursor dot, its contents label   *)
(* and the last call made on them.                                         *)
(***************************************************************************)
VARIABLES resp, return_json, returned,
          ss, tasks, objs,
          ohlc, dot, contents, chart_call

\* The rows of the array a call reads: those it inserts and the last one.
RowsRead(array, from) ==
    { array[k] : k \in { j \in 1..Len(array) : j > from \/ j = Len(array) } }

\* Some row the call inserts carries an index field that is not its slot.
Misindexed(array, from) ==
    \E k \in (from + 1)..Len(array) : array[k].index # k - 1

NoRow == [index |-> -1, open |-> 0, high |-> 0, low |-> 0, close |-> 0]

LastRow(array) == IF Len(array) = 0 THEN NoRow ELSE array[Len(array)]

\* What is kept of a call's arguments.
Call(op, array, from, start) ==
    [op |-> op, start |-> start,
     misindexed |-> Misindexed(array, from),
     malformed |-> \E q \in RowsRead(array, from) : q.low > q.high]

\* The row a completed current-bar update was made from, if the call made one.
UpdatedFrom(r, array) ==
    IF r.exc = "none" /\ "last" \in r.self.painted THEN LastRow(array)
    ELSE NoRow

barsVars ==
    <<lines, index, history, last, painted, call, bar, exc, accepted>>

geomVars == <<geomIn, geomOut>>

crossVars ==
    <<graphics, plots, active_plot, lastx, xaxis_label, event, effects>>

levelVars == <<line, dragged, l1_labels, l1_call>>

resprocVars == <<resp, return_json, returned>>

brokerVars == <<ss, tasks, objs>>

chartVars == <<ohlc, dot, contents, chart_call>>

vars ==
    <<barsVars, geomVars, crossVars, levelVars, resprocVars, brokerVars,
      chartVars>>

\* What is kept of a handler's arguments.
Event(op, plot, x, y) == [op |-> op, plot |-> plot, x |-> x, y |-> y]

Self ==
    [lines |-> lines, index |-> index, history |-> history, last |-> last,
     painted |-> {}]

NoGeomIn == [row |-> NoRow, w |-> 0]

BarsInit ==
    /\ lines = NewBarItems.lines
    /\ index = NewBarItems.index
    /\ history = NewBarItems.history
    /\ last = NewBarItems.last
    /\ painted = {}
    /\ call = Call("init", <<>>, 0, 0)
    /\ bar = NoRow
    /\ exc = "none"
    /\ accepted = 0

GeomIdle == geomIn = NoGeomIn /\ geomOut = <<>>

CrossHairInit ==
    /\ graphics = NewCrossHair.graphics
    /\ plots = NewCrossHair.plots
    /\ active_plot = NewCrossHair.active_plot
    /\ lastx = NewCrossHair.lastx
    /\ xaxis_label = NewCrossHair.xaxis_label
    /\ event = Event("init", "", 0, 0)
    /\ effects = {}

L1Call(which, size, level, abs_y, e) ==
    [label |-> which, size |-> size, level |-> level, abs_y |-> abs_y,
     exc |-> e]

NoL1Call == L1Call("", 0, 0, 0, "none")

IdleLine == LevelLine(LevelLabel(0, [h |-> 0, w |-> 0], "bottom", "left"))

\* No level line and no L1 labels have been made.
LevelIdle ==
    /\ line = IdleLine
    /\ dragged = None
    /\ l1_labels = None
    /\ l1_call = NoL1Call

\* resproc has not been handed a response.
ResprocIdle ==
    /\ resp = None
    /\ return_json = TRUE
    /\ returned = None

\* No task has entered get_cached_client.
BrokerIdle ==
    /\ ss = None
    /\ tasks = <<>>
    /\ objs = <<>>

\* No chart data, no cursor dot.
ChartIdle ==
    /\ ohlc = <<>>
    /\ dot = None
    /\ contents = ContentsLabel
    /\ chart_call = [op |-> "init", k |-> 0, exc |-> "none"]

OthersIdle == ResprocIdle /\ BrokerIdle /\ ChartIdle

Init == BarsInit /\ GeomIdle /\ CrossHairInit /\ LevelIdle /\ OthersIdle

Becomes(r) ==
    /\ lines' = r.self.lines
    /\ index' = r.self.index
    /\ history' = r.self.history
    /\ last' = r.self.last
    /\ painted' = r.self.painted
    /\ exc' = r.exc
    /\ UNCHANGED <<geomVars, crossVars, levelVars, resprocVars, brokerVars,
                    chartVars>>

\* draw_from_data draws the initial history, of at least one row: it is the
\* first call, if made.
DrawFromData ==
    /\ call.op = "init"
    /\ \E n \in 1..(Capacity + 1), start \in Starts :
         \E data \in Arrays(n, start) :
            LET r == draw_from_data(Self, data, start)
            IN /\ Becomes(r)
               /\ call' = Call("draw_from_data", data, start, start)
               /\ bar' = NoRow
               /\ accepted' = IF r.exc = "none" THEN r.added ELSE accepted

UpdateFromArray ==
    \E n \in Max(index - 1, 0)..Min(index + MaxBatch, Capacity + 1) :
       \E array \in UpdateArrays(n, index), just_history \in BOOLEAN :
          LET r == update_from_array(Self, array, just_history)
          IN /\ Becomes(r)
             /\ call' = Call("update_from_array", array, index, 0)
             /\ bar' = UpdatedFrom(r, array)
             /\ accepted' = accepted + r.added

Next == DrawFromData \/ UpdateFromArray

Spec == Init /\ [][Next]_vars

(***************************************************************************)
(* bars_from_ohlc on its own: one row and one half-width are drawn, and    *)
(* the function is applied to the one-row array.                           *)
(***************************************************************************)
MaxIndex == 3

MaxPrice == 2

\* Half-widths in hundredths: 0 < w <= 0.5, with the default 0.43.
Widths == {1, W, 50}

GeomInputs ==
    { [row |-> [index |-> i, open |-> o, high |-> h, low |-> l, close |-> c],
       w |-> w] :
        i \in 0..MaxIndex, o \in 1..MaxPrice, h \in 1..MaxPrice,
        l \in 1..MaxPrice, c \in 1..MaxPrice, w \in Widths }

GeomInit ==
    /\ BarsInit /\ CrossHairInit /\ LevelIdle /\ OthersIdle
    /\ geomIn \in GeomInputs /\ geomOut = <<>>

Derive ==
    /\ geomOut = <<>>
    /\ geomOut' = bars_from_ohlc(<<geomIn.row>>, geomIn.w, 0)
    /\ UNCHANGED <<barsVars, geomIn, crossVars, levelVars, resprocVars,
                    brokerVars, chartVars>>

SpecGeometry == GeomInit /\ [][Derive]_vars

(***************************************************************************)
(* The crosshair on its own: charts are registered, curve cursors are      *)
(* added to registered charts, and the pointer enters, leaves and moves.   *)
(* The enter and leave signals of a chart are connected in add_plot, so    *)
(* they come from registered charts only; they are delivered through       *)
(* rate-limited proxies, in any order.                                     *)
(***************************************************************************)
\* Most cursors added to one chart.
MaxCursors == 1

\* The charts of the linked split charts.
Panels == {"A", "B"}

\* View coordinates of the pointer: x in hundredths of a bar (0.4, 0.5,
\* 0.6 and 1.5), y a price.
Xs == {40, 50, 60, 150}

Ys == {1, 2}

\* plot._ohlc[-1]['index'] of a chart that is given a cursor.
OhlcLast == {3}

CrossSelf ==
    [graphics |-> graphics, plots |-> plots, active_plot |-> active_plot,
     digits |-> NewCrossHair.digits, lastx |-> lastx,
     xaxis_label |-> xaxis_label, effects |-> {}]

CrossBecomes(s) ==
    /\ graphics' = s.graphics
    /\ plots' = s.plots
    /\ active_plot' = s.active_plot
    /\ lastx' = s.lastx
    /\ xaxis_label' = s.xaxis_label
    /\ effects' = s.effects
    /\ UNCHANGED <<barsVars, geomVars, levelVars, resprocVars, brokerVars,
                    chartVars>>

\* A chart is handed to add_plot once, with the default digits.
AddPlot ==
    \E plot \in Panels \ DOMAIN graphics :
       /\ CrossBecomes(add_plot(CrossSelf, plot, 0))
       /\ event' = Event("add_plot", plot, 0, 0)

AddCurveCursor ==
    \E plot \in DOMAIN graphics, i \in OhlcLast :
       /\ Len(graphics[plot].cursors) < MaxCursors
       /\ CrossBecomes(add_curve_cursor(CrossSelf, plot, i))
       /\ event' = Event("add_curve_cursor", plot, 0, 0)

MouseAction ==
    \E action \in {"Enter", "Leave"}, plot \in DOMAIN graphics :
       /\ CrossBecomes(mouseAction(CrossSelf, action, plot))
       /\ event' = Event(action, plot, 0, 0)

MouseMoved ==
    \E x \in Xs, y \in Ys :
       /\ CrossBecomes(mouseMoved(CrossSelf, x, y))
       /\ event' = Event("mouseMoved", "", x, y)

CrossInit ==
    BarsInit /\ GeomIdle /\ CrossHairInit /\ LevelIdle /\ OthersIdle

CrossNext == AddPlot \/ AddCurveCursor \/ MouseAction \/ MouseMoved

SpecCrossHair == CrossInit /\ [][CrossNext]_vars

(***************************************************************************)
(* The level line on its own: level_line makes a line and its label, and   *)
(* the line is dragged.                                                    *)
(***************************************************************************)
\* Number of levels above 99.75, a quarter apart.
MaxTicks == 6

Levels == { 9975 + 25 * k : k \in 0..MaxTicks }

Digits == {0, 1, 2}

\* Height and character width of the label's font, in pixels.
Fonts == { [h |-> 13, w |-> 7], [h |-> 17, w |-> 9] }

SceneYs == {30, 31}

\* Sizes of an order queue in hundredths: unset, 5 and 12.5.
Sizes == {0, 500, 1250}

\* Prices of the book: 100.25 and 1000.00.
L1Levels == {10025, 100000}

\* The chart has made a level line.
LineInit ==
    /\ dragged = None
    /\ l1_labels = None
    /\ l1_call = NoL1Call
    /\ \E level \in Levels, digits \in Digits, font \in Fonts,
          orient_v \in {"top", "bottom", "middle"},
          orient_h \in {"left", "right"}, abs_y \in SceneYs :
          line = level_line(level, digits, font, orient_v, orient_h, abs_y,
                            TRUE)

\* The chart has made its L1 labels.
L1Init ==
    /\ line = IdleLine
    /\ dragged = None
    /\ l1_call = NoL1Call
    /\ \E digits \in Digits, size_digits \in {0, 1}, font \in Fonts :
          l1_labels = <<L1Labels(digits, size_digits, font)>>

LevelInit ==
    /\ BarsInit /\ GeomIdle /\ CrossHairInit /\ OthersIdle
    /\ LineInit \/ L1Init

\* The x coordinates of the points a drag ends on.
DragXs == {0, 1}

\* onDrag: the line is moved to the point under the cursor.  A drag that
\* keeps the level and moves the point along the line emits the signal too,
\* and the label is placed again.
Drag ==
    \E x \in DragXs, v \in Levels, abs_y \in SceneYs :
       /\ l1_labels = None
       /\ line' = setPos(line, x, v, abs_y)
       /\ dragged' = <<v, abs_y>>
       /\ UNCHANGED <<barsVars, geomVars, crossVars, l1_labels, l1_call,
                      resprocVars, brokerVars, chartVars>>

\* The chart sets the size of the bid or the ask label and updates the
\* label to a level: label.size = size; label.update_from_data(0, level).
UpdateL1 ==
    \E which \in {"bid_label", "ask_label"}, size \in Sizes,
       level \in L1Levels, abs_y \in SceneYs :
       /\ l1_labels # None
       /\ LET lbl == [l1_labels[1][which] EXCEPT !.size = size]
              r == update_from_data(lbl, 0, level, abs_y)
          IN /\ l1_labels' = <<[l1_labels[1] EXCEPT ![which] = r.self]>>
             /\ l1_call' = L1Call(which, size, level, abs_y, r.exc)
       /\ UNCHANGED <<barsVars, geomVars, crossVars, line, dragged,
                      resprocVars, brokerVars, chartVars>>

LevelNext == Drag \/ UpdateL1

SpecLevel == LevelInit /\ [][LevelNext]_vars

(***************************************************************************)
(* resproc applied once to a response.                                     *)
(***************************************************************************)
StatusCodes == {200, 201, 204, 301, 400, 404, 429, 500}

Responses ==
    { [status_code |-> c, text |-> t] : c \in StatusCodes,
                                         t \in DOMAIN JsonDocs }

ResprocInit ==
    /\ BarsInit /\ GeomIdle /\ CrossHairInit /\ LevelIdle
    /\ BrokerIdle /\ ChartIdle
    /\ resp \in Responses
    /\ return_json \in BOOLEAN
    /\ returned = None

Resproc ==
    /\ returned = None
    /\ returned' = <<resproc(resp, return_json)>>
    /\ UNCHANGED <<barsVars, geomVars, crossVars, levelVars, brokerVars,
                   chartVars, resp, return_json>>

ResprocNext == Resproc

SpecResproc == ResprocInit /\ [][ResprocNext]_vars

(***************************************************************************)
(* The cached clients: MaxTasks tasks enter get_cached_client for the      *)
(* broker names of Brokers, again after a call has raised.                 *)
(***************************************************************************)
MaxTasks == 4

Tasks == 1..MaxTasks

Brokers == {"ib", "kraken", "questrade"}

BrokerSelf == [ss |-> ss, tasks |-> tasks, objs |-> objs]

BrokerBecomes(s) ==
    /\ ss' = s.ss
    /\ tasks' = s.tasks
    /\ objs' = s.objs
    /\ UNCHANGED <<barsVars, geomVars, crossVars, levelVars, resprocVars,
                   chartVars>>

\* The module as it is imported: nothing binds the name ss.
ClientInit ==
    /\ BarsInit /\ GeomIdle /\ CrossHairInit /\ LevelIdle
    /\ ResprocIdle /\ ChartIdle
    /\ ss = None
    /\ tasks = [t \in Tasks |-> Idle]
    /\ objs = <<>>

Enter ==
    \E t \in Tasks, b \in Brokers :
       /\ tasks[t].pc \in {"idle", "done", "raised"}
       /\ BrokerBecomes(enter(BrokerSelf, t, b))

ClientNext == Enter

SpecClient == ClientInit /\ [][ClientNext]_vars

(***************************************************************************)
(* The cursor dot and the contents label over a data array of up to        *)
(* MaxRows rows with consecutive index fields: the dot's index is set and  *)
(* the label is refreshed for the indices from two below the first row to  *)
(* two above the last.                                                     *)
(***************************************************************************)
MaxRows == 3

Firsts == {0, 5}

Prices == {100, 250}

Datum(i, p) ==
    [index |-> i, open |-> p, high |-> p + 25, low |-> p - 25,
     close |-> p + 10, volume |-> 7 * p, bar_wap |-> p + 5]

DataArrays ==
    UNION { { [j \in 1..n |-> Datum(first + j - 1, ps[j])] :
                ps \in [1..n -> Prices], first \in Firsts } :
            n \in 1..MaxRows }

Names == {"close", "bar_wap"}

ChartCall(op, k, e) == [op |-> op, k |-> k, exc |-> e]

Cursors(array) ==
    (array[1].index - 2)..(array[Len(array)].index + 2)

\* A chart with its data, the cursor of add_curve_cursor at the last row's
\* index and an empty contents label.
ChartInit ==
    /\ BarsInit /\ GeomIdle /\ CrossHairInit /\ LevelIdle
    /\ ResprocIdle /\ BrokerIdle
    /\ ohlc \in DataArrays
    /\ dot = <<LineDot(PlotCurveItem(ohlc), ohlc[Len(ohlc)].index)>>
    /\ contents = ContentsLabel
    /\ chart_call = ChartCall("init", 0, "none")

ChartUnchanged ==
    UNCHANGED <<barsVars, geomVars, crossVars, levelVars, resprocVars,
                brokerVars, ohlc>>

SetIndex ==
    \E k \in Cursors(ohlc) :
       /\ dot' = <<setIndex(dot[1], k)>>
       /\ chart_call' = ChartCall("setIndex", k, "none")
       /\ UNCHANGED contents
       /\ ChartUnchanged

UpdateFromOhlc ==
    \E k \in Cursors(ohlc), name \in Names :
       LET r == update_from_ohlc(contents, name, k, ohlc)
       IN /\ contents' = r.self
          /\ chart_call' = ChartCall("update_from_ohlc", k, r.exc)
          /\ UNCHANGED dot
          /\ ChartUnchanged

UpdateFromValue ==
    \E k \in Cursors(ohlc), name \in Names :
       LET r == update_from_value(contents, name, k, ohlc)
       IN /\ contents' = r.self
          /\ chart_call' = ChartCall("update_from_value", k, r.exc)
          /\ UNCHANGED dot
          /\ ChartUnchanged

ChartNext == SetIndex \/ UpdateFromOhlc \/ UpdateFromValue

SpecChart == ChartInit /\ [][ChartNext]_vars

(***************************************************************************)
(* The properties.                                                         *)
(***************************************************************************)
\* Slot k of the table, numbered from 0.
Slot(k) == lines[k + 1]

IsLine(e) == Len(e) = 4

\* The spec's segment notation, in hundredths on the x axis.
Vertical(x, y1, y2) == <<x, y1, x, y2>>

Horizontal(x1, x2, y) == <<x1, y, x2, y>>

\* The geometry the spec's derivation gives bar q with half-width w.
Derived(q, w) ==
    <<IF q.low # q.high THEN Vertical(X(q.index), q.low, q.high) ELSE None,
      Horizontal(X(q.index) - w, X(q.index), q.open),
      Horizontal(X(q.index), X(q.index) + w, q.close)>>

\* The picture pic is the compilation of exactly the slots [a, b).
Covers(pic, a, b) ==
    /\ pic.istart = a
    /\ pic.iend = b
    /\ pic.drawn = SelectSeq(to_draw(Self, a, b), IsLine)

\* The array of n rows that ends in row b.
ArrayEndingIn(n, b) == [k \in 1..n |-> IF k = n THEN b ELSE Filler(k - 1)]

\* C1: the write cursor equals the number of bars taken in by the calls that
\* returned; a call that raises does not advance it.
C1_CountIsAccepted == index = accepted

\* C2: an update_from_array call that inserts a row whose index field is not
\* the slot it goes to is rejected, and leaves count and the table as they
\* were.
C2_MisindexedRejected ==
    [][(call'.op = "update_from_array" /\ call'.misindexed)
         => (exc' # "none" /\ index' = index /\ lines' = lines)]_vars

\* C3: no table entry and no picture ever holds the body of a bar with
\* low > high (a body runs from low to high, so such a body has y1 > y2).
C3_NoMalformedGeometry ==
    /\ \A k \in 1..Len(lines) :
          IsLine(lines[k][1]) => lines[k][1][2] <= lines[k][1][4]
    /\ \A pic \in {history, last} :
          \A j \in 1..Len(pic.drawn) :
             IsLine(pic.drawn[j]) => pic.drawn[j][2] <= pic.drawn[j][4]

\* C4: the write cursor never passes the size of the table.
C4_CountWithinCapacity == index <= Capacity

\* C5: a call that fails on the table's size (numpy's ValueError for rows
\* that do not fit, IndexError for a slot beyond the table) leaves count, the
\* table and both pictures as they were, and the call after it does not
\* advance count either.
C5_CapacityFailureHalts ==
    [][/\ exc' \in {"ValueError", "IndexError"}
            => (index' = index /\ lines' = lines /\ history' = history
                /\ last' = last)
       /\ (exc = "ValueError" /\ call'.op = "update_from_array")
            => index' = index]_vars

\* C6: bars_from_ohlc gives a bar (i, o, h, l, c) the body vertical(i, l, h)
\* when l # h and no body when l = h, the left arm horizontal(i - w, i, o)
\* and the right arm horizontal(i, i + w, c).
C6_DerivedGeometry ==
    geomOut # <<>> =>
        /\ Len(geomOut) = 1
        /\ geomOut[1] = Derived(geomIn.row, geomIn.w)

\* C6 witness: a bar with low < high has been derived and has a body.
C6_Witness ==
    /\ geomOut # <<>>
    /\ geomIn.row.low < geomIn.row.high
    /\ geomIn.row.open # geomIn.row.close
    /\ IsLine(geomOut[1][1])

\* C7: after a completed current-bar update from row bar, the entry at slot
\* count - 1 is the geometry the derivation gives that row.
C7_UpdateEqualsDerivation ==
    bar # NoRow => Slot(index - 1) = Derived(bar, W)

\* C8: in every state, for every bar with index count - 1, a second
\* update_from_array call with the same bar leaves count, the table and both
\* pictures as the first call left them.
C8_UpdateLastIdempotent ==
    \A s \in Shapes :
        LET a == ArrayEndingIn(index, Row(index - 1, s))
            r1 == update_from_array(Self, a, FALSE)
            r2 == update_from_array([r1.self EXCEPT !.painted = {}], a, FALSE)
        IN (index >= 1 /\ r1.exc = "none") =>
              /\ r2.exc = "none"
              /\ r2.self.index = r1.self.index
              /\ r2.self.lines = r1.self.lines
              /\ r2.self.history = r1.self.history
              /\ r2.self.last = r1.self.last

\* C8 witness: a state in which the first of the two calls gives the forming
\* bar a body it did not have.
C8_Witness ==
    \E s \in Shapes :
        LET a == ArrayEndingIn(index, Row(index - 1, s))
            r1 == update_from_array(Self, a, FALSE)
        IN /\ index >= 2
           /\ r1.exc = "none"
           /\ Slot(index - 1)[1] = None
           /\ IsLine(r1.self.lines[index][1])

\* C9: an update_from_array call recompiles the history picture only if it
\* advances count, and a call that returns without advancing count leaves
\* the history picture as it was and recompiles the last picture alone.
C9_HistoryOnlyOnAppend ==
    [][call'.op = "update_from_array" =>
         /\ "history" \in painted' => index' > index
         /\ (exc' = "none" /\ index' = index)
               => (history' = history /\ painted' = {"last"})]_vars

\* C9 witness: a current-bar update of a table of two bars has returned,
\* having recompiled the last picture alone.
C9_Witness ==
    /\ call.op = "update_from_array"
    /\ exc = "none"
    /\ index >= 2
    /\ painted = {"last"}
    /\ bar # NoRow

\* C10: after every completed call that leaves count >= 1 the
\* history picture covers exactly the slots [0, count - 1) and the last
\* picture exactly the slot count - 1.
C10_BatchesPartition ==
    (call.op # "init" /\ exc = "none" /\ index >= 1) =>
        /\ Covers(history, 0, index - 1)
        /\ Covers(last, index - 1, index)

\* The entry e is the geometry of a bar centred on x: both arms meet at x and
\* the body, when there is one, stands at x.
CentredOn(e, x) ==
    /\ IsLine(e[2]) /\ e[2][3] = x
    /\ IsLine(e[3]) /\ e[3][1] = x
    /\ e[1] = None \/ (IsLine(e[1]) /\ e[1][1] = x /\ e[1][3] = x)

\* C11: every slot k below count holds the geometry of the bar of index k
\* (its segments are centred on x = k) and no slot at or beyond count holds
\* geometry, after draw_from_data with any start offset and after appends of
\* several bars.
C11_SlotsInIndexOrder ==
    /\ \A k \in 0..(Min(index, Len(lines)) - 1) : CentredOn(Slot(k), X(k))
    /\ \A k \in index..(Len(lines) - 1) : Slot(k) = <<Zero, Zero, Zero>>

\* The charts registered with the crosshair.
Registered == DOMAIN graphics

\* C12: a Leave from a chart that is not the active one leaves active_plot
\* as it was; after Enter(A), Enter(B), a Leave(A) leaves B active.
C12_StaleLeaveIgnored ==
    [][(event'.op = "Leave" /\ active_plot # <<event'.plot>>)
          => active_plot' = active_plot]_vars

\* C13: after an Enter of a registered chart p, whatever was active before,
\* p is active and its horizontal line and y-axis label are shown; after a
\* Leave of p made while p is active, no chart is active and p's horizontal
\* line and y-axis label are hidden.
C13_EnterLeave ==
    [][/\ event'.op = "Enter" =>
             /\ active_plot' = <<event'.plot>>
             /\ graphics'[event'.plot].hl.visible
             /\ graphics'[event'.plot].yl.visible
       /\ (event'.op = "Leave" /\ active_plot = <<event'.plot>>) =>
             /\ active_plot' = None
             /\ ~graphics'[event'.plot].hl.visible
             /\ ~graphics'[event'.plot].yl.visible]_vars

\* C13 witness: B has been entered while A was active and had not been
\* left: B is active and shows its line and label.
C13_Witness ==
    /\ event = Event("Enter", "B", 0, 0)
    /\ Registered = Panels
    /\ graphics["A"].hl.visible
    /\ active_plot = <<"B">>
    /\ graphics["B"].hl.visible
    /\ graphics["B"].yl.visible

\* C14: a pointer move made while no chart is active changes no line, no
\* label, no cursor and not _lastx, and makes no call on any item.
C14_MoveWithoutActiveIsNoop ==
    [][(event'.op = "mouseMoved" /\ active_plot = None) =>
          /\ graphics' = graphics
          /\ xaxis_label' = xaxis_label
          /\ lastx' = lastx
          /\ active_plot' = active_plot
          /\ effects' = {}]_vars

\* C14 witness: a pointer move has been made after the active chart was
\* left, with lines, cursors and a snapped index there to be changed.
C14_Witness ==
    /\ event.op = "mouseMoved"
    /\ active_plot = None
    /\ lastx # None
    /\ <<PyRound(event.x)>> # lastx
    /\ Registered = Panels
    /\ \A p \in Registered : graphics[p].cursors # <<>>

\* C15: of two pointer moves in a row whose x round to the same index, the
\* second changes and calls nothing but the active chart's horizontal line
\* and y-axis label: no vertical line, no contents label, no cursor, not
\* the bottom-axis label and not _lastx.
C15_SameIndexMovesOnlyHorizontal ==
    [][(event.op = "mouseMoved" /\ event'.op = "mouseMoved"
          /\ PyRound(event.x) = PyRound(event'.x)) =>
          /\ lastx' = lastx
          /\ xaxis_label' = xaxis_label
          /\ \A p \in Registered :
                /\ graphics'[p].vl = graphics[p].vl
                /\ graphics'[p].cursors = graphics[p].cursors
                /\ <<p>> # active_plot => graphics'[p] = graphics[p]
          /\ \A e \in effects' :
                /\ e.op \in {"hl.setY", "yl.update_label"}
                /\ <<e.plot>> = active_plot]_vars

\* C15 witness: the second of two moves that round to the same index has
\* moved the active chart's horizontal line and left the snapped index.
C15_Witness ==
    /\ event = Event("mouseMoved", "", 50, 2)
    /\ active_plot = <<"A">>
    /\ lastx = <<0>>
    /\ xaxis_label[1].value = <<40>>
    /\ graphics["A"].hl.pos = 2
    /\ Registered = Panels

\* The refresh for index ix has been done for every chart of g: its
\* vertical line is at ix, its contents label was asked for ix and its
\* cursors are at ix.
Refreshed(g, es, ix) ==
    \A p \in DOMAIN g :
       /\ g[p].vl.pos = ix
       /\ Effect("vl.setX", p, ix) \in es
       /\ Effect("update_contents_labels", p, ix) \in es
       /\ \A k \in DOMAIN g[p].cursors : g[p].cursors[k].index = ix
       /\ g[p].cursors # <<>> => Effect("cursor.setIndex", p, ix) \in es

\* C16: a pointer move with an active chart that snaps to an index other
\* than _lastx moves the vertical line of every registered chart to that
\* index, asks every chart for its contents label at it and sets every
\* cursor to it; and _lastx changes only in a step that has done so.
C16_RefreshAllPanels ==
    [][/\ (event'.op = "mouseMoved" /\ active_plot # None
             /\ <<PyRound(event'.x)>> # lastx)
          => Refreshed(graphics', effects', PyRound(event'.x))
       /\ lastx' # lastx
          => /\ event'.op = "mouseMoved"
             /\ lastx' = <<PyRound(event'.x)>>
             /\ Refreshed(graphics', effects', lastx'[1])]_vars

\* C16 witness: a move on A has snapped to index 2 and B, which is not
\* active, has its vertical line and its cursor there.
C16_Witness ==
    /\ event.op = "mouseMoved"
    /\ Registered = Panels
    /\ active_plot = <<"A">>
    /\ lastx = <<2>>
    /\ graphics["B"].vl.pos = 2
    /\ graphics["B"].cursors # <<>>
    /\ graphics["B"].cursors[1].index = 2
    /\ Effect("update_contents_labels", "B", 2) \in effects

\* The calls made on the bottom-axis label.
XAxisCalls(es) == {e \in es : e.op = "xaxis_label.update_label"}

\* C17: a pointer move that does the refresh updates the bottom-axis label
\* with the pointer's x as it is, not rounded; a move that does not do the
\* refresh does not update that label.
C17_XAxisLabelUnrounded ==
    [][event'.op = "mouseMoved" =>
          IF active_plot # None /\ <<PyRound(event'.x)>> # lastx
          THEN /\ xaxis_label'[1].value = <<event'.x>>
               /\ \E e \in XAxisCalls(effects') : e.arg = event'.x
               /\ \A e \in XAxisCalls(effects') : e.arg = event'.x
          ELSE /\ xaxis_label' = xaxis_label
               /\ XAxisCalls(effects') = {}]_vars

\* C17 witness: the bottom-axis label holds x = 1.5 after a move that
\* snapped to index 2.
C17_Witness ==
    /\ event.op = "mouseMoved"
    /\ event.x = 150
    /\ lastx = <<2>>
    /\ xaxis_label # <<>>
    /\ xaxis_label[1].value = <<150>>
    /\ XAxisCalls(effects) # {}

\* C18: in every state with a registered chart, boundingRect returns the
\* bounding rectangle of the active chart when there is one and of the
\* chart registered first when there is none.
C18_BoundingRect ==
    plots # <<>> =>
        /\ boundingRect(CrossSelf).exc = "none"
        /\ boundingRect(CrossSelf).plot =
              IF active_plot # None THEN active_plot ELSE <<plots[1]>>

\* C18 witness: two charts are registered, B first, the pointer has left
\* the active chart and boundingRect falls back on B.
C18_Witness ==
    /\ plots = <<"B", "A">>
    /\ event.op = "Leave"
    /\ active_plot = None
    /\ boundingRect(CrossSelf).plot = <<"B">>

\* C19: right after add_plot(plot) the chart is in self.plots and in
\* self.graphics, and its vertical line, its horizontal line and its y-axis
\* label are there and hidden.
C19_RegisteredHidden ==
    event.op = "add_plot" =>
        /\ event.plot \in Registered
        /\ \E k \in 1..Len(plots) : plots[k] = event.plot
        /\ ~graphics[event.plot].vl.visible
        /\ ~graphics[event.plot].hl.visible
        /\ ~graphics[event.plot].yl.visible

\* C20: after a drag of the line to a level, the label's level is that
\* level and its text is the level in fixed-point notation with the
\* label's number of digits; a drag to 101.25 with two digits gives the
\* text "101.25".
C20_DragUpdatesLabel ==
    dragged # None =>
        /\ line.value = dragged[1]
        /\ line.label.level = dragged[1]
        /\ line.label.label_str = FormatFixed(dragged[1], line.label.digits)
        /\ (dragged[1] = 10125 /\ line.label.digits = 2)
              => line.label.label_str = <<"1", "0", "1", ".", "2", "5">>

\* C20 witness: a two-digit label reads "101.25" after a drag to 101.25.
C20_Witness ==
    /\ dragged # None
    /\ dragged[1] = 10125
    /\ line.label.digits = 2
    /\ line.label.level = 10125
    /\ line.label.label_str = <<"1", "0", "1", ".", "2", "5">>

\* The label lbl is where the spec puts it for the anchor anchor_y: at
\* y = anchor_y - v_shift * height - offset (v_shift 1, 0 and 1/2, here
\* doubled) and x = h_shift * width - offset, height and width being those
\* of its measured rectangle.
Positioned(lbl, anchor_y, offset) ==
    LET v2 == CASE lbl.orient_v = "top" -> 2
                [] lbl.orient_v = "bottom" -> 0
                [] lbl.orient_v = "middle" -> 1
        hs == IF lbl.orient_h = "left" THEN -1 ELSE 0
    IN /\ 2 * (anchor_y - lbl.pos.y - offset) = v2 * lbl.rect.h
       /\ lbl.pos.x = hs * lbl.rect.w - offset

\* C21: every update of the label puts it at y = anchor_y - v_shift *
\* measured height - offset and x = h_shift * measured width - offset, with
\* the offset 1, whatever the level.
C21_LabelPosition ==
    [][line'.label # line.label
          => Positioned(line'.label, dragged'[2], 1)]_vars

\* C21 witness: a label anchored at the middle, left of the axis, has been
\* dragged and sits half its height above and its whole width left of the
\* anchor.
C21_Witness ==
    /\ dragged # None
    /\ line.value = dragged[1]
    /\ line.label.orient_v = "middle"
    /\ line.label.orient_h = "left"
    /\ line.label.rect.h = 16
    /\ line.label.pos.y = dragged[2] - 8 - 1
    /\ line.label.pos.x = 0 - line.label.rect.w - 1

\* The labels there are: the label of the level line, or the two L1 labels.
Labels ==
    IF l1_labels = None THEN {line.label}
    ELSE {l1_labels[1].bid_label, l1_labels[1].ask_label}

\* The text of the label is no wider than the rectangle measured for it.
Fits(lbl) == lbl.font.w * Len(lbl.label_str) + w_margin <= lbl.rect.w

\* C22: the rectangle of a label is measured once, at creation, against a
\* worst-case string: every text the label is given fits it, and no update
\* of the level or of the size changes its width or its height.
C22_MeasuredBoxFixed ==
    /\ [](\A lbl \in Labels : Fits(lbl))
    /\ [][/\ line'.label.rect = line.label.rect
          /\ l1_labels # None =>
                /\ l1_labels'[1].bid_label.rect = l1_labels[1].bid_label.rect
                /\ l1_labels'[1].ask_label.rect = l1_labels[1].ask_label.rect
         ]_vars

\* The size part and the price part of the text of an L1 label.
L1Text(size, size_digits, level, digits) ==
    (IF size = 0 THEN <<"?">> ELSE FormatFixed(size, size_digits)) \o
    <<" ", "x", " ">> \o
    Replace(FormatGrouped(level, digits), ",", " ")

\* C23: every update of an L1 label succeeds and leaves the text
\* '{size} x {price}', the size part being '?' when the size is unset or 0.
C23_L1Text ==
    l1_call.label # "" =>
        /\ l1_call.exc = "none"
        /\ LET lbl == l1_labels[1][l1_call.label]
           IN lbl.label_str =
                 L1Text(l1_call.size, lbl.size_digits, l1_call.level,
                        lbl.digits)

\* The clients created for a broker name, by their numbers.
CreatedFor(b) == { i \in 1..Len(objs) : objs[i].brokername = b }

\* C24: get_cached_client gives every caller a client, the cached one or a
\* new one: a call raises only what the creation of a client or the
\* caller's own body raised; and across every interleaving of the callers
\* for one broker name, a client is created at most once for the name and
\* every caller receives the same client object.
C24_ClientCreatedOnce ==
    /\ \A t \in DOMAIN tasks :
          tasks[t].pc = "raised" => tasks[t].error # "none"
    /\ \A b \in Brokers :
          /\ Cardinality(CreatedFor(b)) <= 1
          /\ \A t, u \in DOMAIN tasks :
                (/\ tasks[t].brokername = b /\ tasks[u].brokername = b
                 /\ tasks[t].client # None /\ tasks[u].client # None)
                   => tasks[t].client = tasks[u].client

\* C25: resproc raises BrokerError for every response whose status is not
\* 200; for a response of status 200 it returns the decoded JSON when
\* return_json is true and the response object when it is false.
C25_Resproc ==
    returned # None =>
        IF resp.status_code # 200
        THEN returned[1].exc = "BrokerError"
        ELSE /\ returned[1].exc = "none"
             /\ returned[1].value =
                   IF return_json THEN <<"json", JsonDocs[resp.text].value>>
                   ELSE <<"resp", resp>>

\* The state update_from_array has reached when it comes to the update of
\* the current bar: the rows beyond count appended, if there are any.
Appended(array) ==
    IF Len(array) > index THEN update_from_array(Self, array, TRUE)
    ELSE Return(Self, 0)

\* C26: in every state and for every array handed in, the update of the
\* current bar leaves count, the history picture and the slots
\* [0, count - 1) as they are when it starts, also in the call that has
\* appended rows before it; only slot count - 1 may change.
C26_UpdateLastTouchesOnlyLast ==
    \A n \in Max(index - 1, 0)..Min(index + MaxBatch, Capacity + 1) :
       \A array \in UpdateArrays(n, index) :
          LET mid == Appended(array)
              r == update_from_array(Self, array, FALSE)
          IN mid.exc = "none" =>
                /\ r.self.index = mid.self.index
                /\ r.self.history = mid.self.history
                /\ \A k \in 1..(mid.self.index - 1) :
                      k <= Len(lines) => r.self.lines[k] = mid.self.lines[k]

\* C26 witness: a table with a bar and a free slot on which one call that
\* appends a row completes its update of the current bar, slot 0 then
\* being history, and another call, which appends none, completes with a
\* changed slot count - 1.
C26_Witness ==
    /\ index >= 1
    /\ index < Capacity
    /\ \E array \in UpdateArrays(index + 1, index) :
          LET r == update_from_array(Self, array, FALSE)
          IN r.exc = "none" /\ r.self.index = index + 1
             /\ "last" \in r.self.painted
    /\ \E array \in UpdateArrays(index, index) :
          LET r == update_from_array(Self, array, FALSE)
          IN r.exc = "none" /\ r.self.lines[index] # lines[index]

\* C27: in every state reached by registering charts and by Enter and
\* Leave events, a chart's horizontal line and y-axis label are shown if
\* and only if the chart is the active one.
C27_ShownIffActive ==
    \A p \in Registered :
       /\ graphics[p].hl.visible <=> active_plot = <<p>>
       /\ graphics[p].yl.visible <=> active_plot = <<p>>

\* C28: whenever _lastx is set, the vertical line of every registered
\* chart is at _lastx, also that of a chart registered after the last
\* refresh.
C28_VerticalLinesAtLastx ==
    lastx # None => \A p \in Registered : graphics[p].vl.pos = lastx[1]

\* C29: when the dot's index is set to an index of the data range
\* [first, last], ends included, the dot moves to (index, y[index - first]);
\* when it is set to an index outside the range, the dot stays where it is.
C29_DotFollowsIndex ==
    [][chart_call'.op = "setIndex" =>
         LET k == chart_call'.k
             first == ohlc[1].index
         IN IF k >= first /\ k <= ohlc[Len(ohlc)].index
            THEN dot'[1].pos = <<k, ohlc[k - first + 1].close>>
            ELSE dot'[1].pos = dot[1].pos]_vars

\* The row of the data array whose index field is k.
RowOf(k) == ohlc[k - ohlc[1].index + 1]

InRange(k) == k >= ohlc[1].index /\ k <= ohlc[Len(ohlc)].index

\* C30: a refresh of the contents label for an index k of
\* [first, last], ends included, shows the row whose index field is k;
\* for a k outside the range, update_from_value leaves the text as it is
\* and update_from_ohlc shows no row whose index field is not k.
C30_LabelShowsRow ==
    [][LET k == chart_call'.k
       IN /\ (chart_call'.op = "update_from_ohlc" /\ InRange(k))
                => contents'.text = <<OhlcText(k, RowOf(k))>>
          /\ (chart_call'.op = "update_from_value" /\ InRange(k))
                => /\ contents'.text # None
                   /\ \E name \in Names :
                         contents'.text[1] = ValueText(name, RowOf(k)[name])
          /\ (chart_call'.op = "update_from_value" /\ ~InRange(k))
                => contents'.text = contents.text
          /\ (chart_call'.op = "update_from_ohlc" /\ ~InRange(k))
                => contents'.text = contents.text]_vars

====
